---- MODULE Spec2Model ----
(***************************************************************************)
(* FileProcessor.process_directory / FileProcessor.process_file of         *)
(* file_processor_template.py as a state machine.                          *)
(*                                                                         *)
(* One FileProcessor (config + strategy fixed at construction) is called   *)
(* MaxRuns times on the same dir_path.  The filesystem under dir_path is   *)
(* external state: files can be removed by the environment between any two *)
(* steps of the traversal.  _do_process and the two sinks are the hooks a  *)
(* developer fills in: each either returns or raises an Exception.         *)
(* Strings whose case matters (file names, extension filters) are          *)
(* sequences of one-character strings.  Times are whole milliseconds, on   *)
(* which round(x, 3) of a seconds value changes nothing.                   *)
(***************************************************************************)
EXTENDS Integers, Sequences, FiniteSets, TLC

\* ------------------------------------------------------------------ bounds
MaxFiles == 2       \* files the tree under dir_path can hold (at most 4)
MaxRuns == 2        \* calls of process_directory on the same processor
MaxRemovals == 1    \* files the environment removes during a behaviour
MaxTime == 1        \* milliseconds of _do_process time one traversal can see

\* ----------------------------------------------------------------- strings
\* str.lower() on the characters that occur in the model
LowerChar(c) ==
    CASE c = "T" -> "t"
      [] c = "X" -> "x"
      [] c = "M" -> "m"
      [] c = "D" -> "d"
      [] OTHER -> c

Lower(s) == [i \in 1..Len(s) |-> LowerChar(s[i])]

\* str.rfind('.') + 1: the position of the last dot, 0 when there is none
LastDot(name) ==
    LET dots == {i \in 1..Len(name) : name[i] = "."}
    IN IF dots = {} THEN 0 ELSE CHOOSE i \in dots : \A j \in dots : j <= i

\* PurePath.suffix: the last dot and what follows it, unless the name starts
\* or ends with that dot
Suffix(name) ==
    LET i == LastDot(name)
    IN IF 1 < i /\ i < Len(name) THEN SubSeq(name, i, Len(name)) ELSE <<>>

\* -------------------------------------------------------------- filesystem
\* The regular files that can exist under dir_path, in the order the
\* directories list them: sub/b.TXT, a.txt, c.Md, sub/d
\* A file path (file_path, the entries of file_paths) is its index here.
AllFiles ==
    << [parent |-> "sub", name |-> <<"b", ".", "T", "X", "T">>],
       [parent |-> "",    name |-> <<"a", ".", "t", "x", "t">>],
       [parent |-> "",    name |-> <<"c", ".", "M", "d">>],
       [parent |-> "sub", name |-> <<"d">>] >>

Files == 1..MaxFiles

\* the values Config.file_extensions takes in the model
Filters ==
    { <<>>,
      << <<".", "t", "x", "t">> >>,
      << <<".", "T", "X", "T">> >>,
      << <<".", "m", "d">>, <<".", "t", "x", "t">> >> }

\* ------------------------------------------------------------------- hooks
Returns == [raises |-> FALSE, args |-> <<>>]
Raises(args) == [raises |-> TRUE, args |-> args]

\* what a _do_process call does: return, raise ValueError(), raise ValueError("bad input")
DoOutcomes == {Returns, Raises(<<>>), Raises(<<"bad input">>)}
\* what a _save_individual_result call does: return, raise OSError("disk full")
SinkOutcomes == {Returns, Raises(<<"disk full">>)}

\* str(e) of an exception: '' without arguments, the argument with one
StrOf(e) == IF e.args = <<>> THEN "" ELSE e.args[1]

None == [none |-> TRUE]

VARIABLES
    root,           \* what dir_path is: "absent", "file" or "dir"
    tree,           \* the regular files that exist under dir_path
    extensions,     \* config.file_extensions
    strategy,       \* strategy.save_individual, strategy.save_summary
    do_process,     \* per file: what _do_process does with it
    save_individual,\* per file: what _save_individual_result does with its result
    pc,             \* "idle", "loop", "returned", "raised"
    file_paths,     \* process_directory's file_paths
    file_results,   \* process_directory's file_results
    idx,            \* turns of "for file_path in file_paths" taken
    total_time,     \* time.time() - start_time so far
    ret,            \* what the current call returned, None before it returns
    calls,          \* the invocations of the current call, in order
    runs,           \* calls of process_directory begun
    prev,           \* what the previous call returned, without the times
    changed,        \* the tree changed since the current call began
    prevChanged,    \* the tree changed during the previous call or after it
    removals        \* files removed so far

vars == <<root, tree, extensions, strategy, do_process, save_individual, pc,
          file_paths, file_results, idx, total_time, ret, calls, runs, prev,
          changed, prevChanged, removals>>

\* ------------------------------------------------------------ process_file
\* process_file without its "if not path.exists()" return
ExistsUnchecked(file_path) == TRUE

Exists(file_path) == file_path \in tree

\* process_file calling the per-file sink whatever the strategy says
SaveIndividualAlways == TRUE

ShouldSaveIndividual == strategy.save_individual

failed_result(file_path, e) ==
    [file_path |-> file_path, status |-> "failed", error |-> StrOf(e),
     process_time |-> 0]

\* one call process_file(file_path) whose _do_process takes dt milliseconds
\* (under one millisecond, or one):
\* the dict it returns, the invocations it makes, the time it takes
process_file(file_path, dt) ==
    LET enter == [op |-> "process_file", file_path |-> file_path,
                  present |-> file_path \in tree]
        do    == [op |-> "_do_process", file_path |-> file_path]
        save  == [op |-> "_save_individual_result", file_path |-> file_path]
    IN
    IF ~Exists(file_path)
    THEN [result |-> [file_path |-> file_path, status |-> "failed",
                      error |-> "file does not exist", process_time |-> 0],
          calls |-> <<enter>>, spent |-> 0]
    ELSE IF do_process[file_path].raises
    THEN [result |-> failed_result(file_path, do_process[file_path]),
          calls |-> <<enter, do>>, spent |-> dt]
    ELSE LET result == [file_path |-> file_path, status |-> "success",
                        process_time |-> dt]
         IN IF ~ShouldSaveIndividual
            THEN [result |-> result, calls |-> <<enter, do>>, spent |-> dt]
            ELSE IF save_individual[file_path].raises
            THEN [result |-> failed_result(file_path, save_individual[file_path]),
                  calls |-> <<enter, do, save>>, spent |-> dt]
            ELSE [result |-> result, calls |-> <<enter, do, save>>, spent |-> dt]

\* ------------------------------------------------------- process_directory
\* the early returns: the error of the returned dict, "" when dir_path is a directory
\* process_directory without its "if not path.is_dir()" return
RootErrorExistsOnly == IF root = "absent" THEN "directory does not exist" ELSE ""

RootError ==
    IF root = "absent" THEN "directory does not exist"
    ELSE IF root = "file" THEN "path is not a directory"
    ELSE ""

failed_directory(error) ==
    [file_dir |-> "dir_path", status |-> "failed", error |-> error,
     file_count |-> 0, process_time |-> 0, results |-> <<>>]

\* extensions and file_path.suffix.lower() not in extensions: continue
Keep(f) ==
    extensions = <<>>
    \/ \E i \in 1..Len(extensions) : Lower(Suffix(AllFiles[f].name)) = extensions[i]

\* path.rglob('*'): the entries of dir_path, then those of its subdirectory,
\* each directory in its listing order
InDir(parent) ==
    SelectSeq([i \in 1..MaxFiles |-> i],
              LAMBDA f : AllFiles[f].parent = parent /\ f \in tree)

Rglob == InDir("") \o InDir("sub")

Collect == SelectSeq(Rglob, Keep)

\* file_results kept on the processor instead of being created per call
StaleResults == file_results

FreshResults == <<>>

\* the loop left at the first failed file
LoopDoneOnFailure ==
    \/ idx = Len(file_paths)
    \/ file_results # <<>> /\ file_results[Len(file_results)].status = "failed"

LoopDone == idx = Len(file_paths)

RECURSIVE SuccessCount(_)
SuccessCount(rs) ==
    IF rs = <<>> THEN 0
    ELSE (IF Head(rs).status = "success" THEN 1 ELSE 0) + SuccessCount(Tail(rs))

\* 'failed' reported when every file failed
StatusOfAllFailed(failed_count) ==
    IF failed_count = 0 THEN "success"
    ELSE IF failed_count = Len(file_results) THEN "failed"
    ELSE "partial_success"

StatusOf(failed_count) == IF failed_count = 0 THEN "success" ELSE "partial_success"

\* round(total / n, 3) in whole milliseconds: the nearest one; at a half the
\* float's binary expansion decides, so either neighbour
RoundDiv(total, n) ==
    LET q == total \div n
        r == total % n
    IN IF 2 * r > n THEN {q + 1} ELSE IF 2 * r = n THEN {q, q + 1} ELSE {q}

\* round(total_time / len(file_results), 3) if file_results else 0
AverageTimes(rs, total) == IF rs # <<>> THEN RoundDiv(total, Len(rs)) ELSE {0}

Summary(rs, total, average_time) ==
    LET success_count == SuccessCount(rs)
        failed_count == Len(rs) - success_count
    IN [file_dir |-> "dir_path",
        file_count |-> Len(rs),
        success_count |-> success_count,
        failed_count |-> failed_count,
        process_time |-> total,
        average_time |-> average_time,
        status |-> StatusOf(failed_count),
        results |-> rs]

\* process_directory calling the summary sink whatever the strategy says
SaveSummaryAlways == TRUE

ShouldSaveSummary == strategy.save_summary

\* the part of a returned dict that does not depend on the clock
Untimed(r) ==
    IF r = None \/ r.status = "failed" THEN r
    ELSE [file_paths |-> [i \in 1..Len(r.results) |-> r.results[i].file_path],
          statuses |-> [i \in 1..Len(r.results) |-> r.results[i].status],
          file_count |-> r.file_count,
          success_count |-> r.success_count,
          failed_count |-> r.failed_count,
          status |-> r.status]

\* ------------------------------------------------------------------- Init
Init ==
    /\ root \in {"absent", "file", "dir"}
    /\ tree \in SUBSET Files
    /\ root # "dir" => tree = {}
    /\ extensions \in Filters
    /\ strategy \in [save_individual : BOOLEAN, save_summary : BOOLEAN]
    /\ do_process \in [Files -> DoOutcomes]
    /\ save_individual \in [Files -> SinkOutcomes]
       \* a hook's behaviour on a file it is never called with is left at Returns
    /\ \A f \in Files \ tree : do_process[f] = Returns /\ save_individual[f] = Returns
    /\ \A f \in Files : (~strategy.save_individual \/ do_process[f].raises)
                            => save_individual[f] = Returns
    /\ pc = "idle"
    /\ file_paths = <<>>
    /\ file_results = <<>>
    /\ idx = 0
    /\ total_time = 0
    /\ ret = None
    /\ calls = <<>>
    /\ runs = 0
    /\ prev = None
    /\ changed = FALSE
    /\ prevChanged = FALSE
    /\ removals = 0

\* ---------------------------------------------------------------- actions
\* process_directory is called: the two checks of dir_path, then the collection
Begin ==
    /\ pc \in {"idle", "returned", "raised"}
    /\ runs < MaxRuns
    /\ runs' = runs + 1
    /\ prev' = Untimed(ret)
    /\ prevChanged' = changed
    /\ changed' = FALSE
    /\ calls' = <<>>
    /\ total_time' = 0
    /\ idx' = 0
    /\ IF RootError # ""
       THEN /\ ret' = failed_directory(RootError)
            /\ pc' = "returned"
            /\ UNCHANGED <<file_paths, file_results>>
       ELSE /\ file_paths' = Collect
            /\ file_results' = FreshResults
            /\ ret' = None
            /\ pc' = "loop"
    /\ UNCHANGED <<root, tree, extensions, strategy, do_process, save_individual, removals>>

\* one turn of "for file_path in file_paths"
ProcessFile ==
    /\ pc = "loop"
    /\ ~LoopDone
    /\ \E dt \in {0, 1} :
         /\ total_time + dt <= MaxTime
         /\ LET r == process_file(file_paths[idx + 1], dt)
            IN /\ file_results' = Append(file_results, r.result)
               /\ calls' = calls \o r.calls
               /\ total_time' = total_time + r.spent
    /\ idx' = idx + 1
    /\ UNCHANGED <<root, tree, extensions, strategy, do_process, save_individual, pc,
                   file_paths, ret, runs, prev, changed, prevChanged, removals>>

\* after the loop: the counts, the dict, the summary sink, the return;
\* _save_summary_results either returns or raises, and what it raises leaves
\* process_directory uncaught
Finish ==
    /\ pc = "loop"
    /\ LoopDone
    /\ \E average_time \in AverageTimes(file_results, total_time) :
       LET results == Summary(file_results, total_time, average_time)
       IN IF ShouldSaveSummary
          THEN /\ calls' = Append(calls, [op |-> "_save_summary_results", results |-> results])
               /\ \/ ret' = results /\ pc' = "returned"
                  \/ ret' = None /\ pc' = "raised"
          ELSE /\ calls' = calls
               /\ ret' = results
               /\ pc' = "returned"
    /\ UNCHANGED <<root, tree, extensions, strategy, do_process, save_individual,
                   file_paths, file_results, idx, total_time, runs, prev, changed,
                   prevChanged, removals>>

\* the environment removes a file under dir_path
RemoveFile ==
    /\ removals < MaxRemovals
    /\ \E f \in tree : tree' = tree \ {f}
    /\ removals' = removals + 1
    /\ changed' = TRUE
    /\ UNCHANGED <<root, extensions, strategy, do_process, save_individual, pc,
                   file_paths, file_results, idx, total_time, ret, calls, runs, prev,
                   prevChanged>>

Next == Begin \/ ProcessFile \/ Finish \/ RemoveFile

Spec == Init /\ [][Next]_vars

\* ------------------------------------------------------------- properties
Range(seq) == {seq[i] : i \in 1..Len(seq)}

PathsOf(seq) == [i \in 1..Len(seq) |-> seq[i].file_path]

CallsOf(op) == SelectSeq(calls, LAMBDA c : c.op = op)

\* positions in calls of the invocations of op
At(op) == {k \in 1..Len(calls) : calls[k].op = op}

\* process_directory returned the dict of a traversal
Traversed == pc = "returned" /\ root = "dir"

\* the files whose turn is over
Done == SubSeq(file_paths, 1, idx)

\* C1: every dict process_directory returns has success_count + failed_count
\* = file_count = len(results).
C1_CountsAgree ==
    pc = "returned" =>
        /\ {"success_count", "failed_count", "file_count", "results"} \subseteq DOMAIN ret
        /\ ret.success_count + ret.failed_count = ret.file_count
        /\ ret.file_count = Len(ret.results)

\* The same equation for the dicts of a traversal (dir_path is a directory).
CountsAgreeAfterTraversal ==
    Traversed =>
        /\ ret.success_count + ret.failed_count = ret.file_count
        /\ ret.file_count = Len(ret.results)

\* C2 as stated: _do_process is invoked exactly once for every kept file, in
\* traversal order, and results holds one entry per kept file in that order.
C2_EveryKeptFileProcessed ==
    root = "dir" /\ pc # "idle" =>
        /\ PathsOf(CallsOf("_do_process")) = Done
        /\ PathsOf(file_results) = Done
        /\ pc = "returned" => PathsOf(ret.results) = file_paths

\* C2 amended: process_file is invoked exactly once for every kept file, one
\* at a time in traversal order, and results holds one entry per kept file in
\* that order whichever files fault; _do_process is invoked, once and inside
\* that file's turn, for exactly the kept files that still exist at their turn.
C2_OneEntryPerKeptFile ==
    root = "dir" /\ pc # "idle" =>
        /\ PathsOf(CallsOf("process_file")) = Done
        /\ PathsOf(file_results) = Done
        /\ pc \in {"returned", "raised"} => idx = Len(file_paths)
        /\ pc = "returned" => PathsOf(ret.results) = file_paths
        /\ \A k \in At("process_file") :
              calls[k].present <=>
                  /\ k < Len(calls)
                  /\ calls[k + 1].op = "_do_process"
                  /\ calls[k + 1].file_path = calls[k].file_path
        /\ \A k \in At("_do_process") :
              /\ k > 1
              /\ calls[k - 1].op = "process_file"
              /\ calls[k - 1].file_path = calls[k].file_path

\* a traversal went on past a first file whose _do_process raised
C2_Witness ==
    /\ Traversed
    /\ Len(file_paths) >= 2
    /\ do_process[file_paths[1]].raises
    /\ PathsOf(CallsOf("_do_process")) = file_paths
    /\ ret.results[1].status = "failed"
    /\ ret.results[2].status = "success"

\* C3: a missing dir_path or one that is no directory gives status failed,
\* file_count 0, no results and no invocation at all; nothing else gives
\* status failed.
C3_InvalidRootFails ==
    pc = "returned" =>
        /\ root # "dir" =>
              /\ ret.status = "failed"
              /\ ret.file_count = 0
              /\ ret.results = <<>>
              /\ calls = <<>>
        /\ ret.status = "failed" => root # "dir"

\* dir_path is a regular file, the summary sink is asked for, the call returned failed
C3_Witness ==
    /\ pc = "returned"
    /\ root = "file"
    /\ strategy.save_summary
    /\ ret.status = "failed"
    /\ ret.error = "path is not a directory"

\* C4 as stated: with a non-empty filter a file is kept if and only if its
\* suffix equals one of the filter strings up to case, on either side; with
\* an empty filter every file is kept.
C4_FilterIgnoresCase ==
    pc = "loop" /\ idx = 0 /\ ~changed =>
        \A f \in tree :
            f \in Range(file_paths) <=>
                \/ extensions = <<>>
                \/ \E i \in 1..Len(extensions) :
                      Lower(Suffix(AllFiles[f].name)) = Lower(extensions[i])

\* What the code keeps: the lower-cased suffix has to be in the filter as written.
FilterMatchesLowerCasedSuffix ==
    pc = "loop" /\ idx = 0 /\ ~changed =>
        \A f \in tree :
            f \in Range(file_paths) <=>
                \/ extensions = <<>>
                \/ Lower(Suffix(AllFiles[f].name)) \in Range(extensions)

\* C5: after a traversal, status is success exactly when failed_count = 0
\* and partial_success otherwise, also when every file failed; no kept file
\* gives file_count 0, average_time 0 and status success.
C5_StatusFromFailedCount ==
    Traversed =>
        LET failed == {i \in 1..Len(ret.results) : ret.results[i].status # "success"}
        IN /\ ret.failed_count = Cardinality(failed)
           /\ failed = {} => ret.status = "success"
           /\ failed # {} => ret.status = "partial_success"
           /\ file_paths = <<>> =>
                 /\ ret.file_count = 0
                 /\ ret.average_time = 0
                 /\ ret.status = "success"

\* every kept file failed, and there was one
C5_Witness ==
    /\ Traversed
    /\ ret.file_count >= 1
    /\ ret.success_count = 0
    /\ ret.status = "partial_success"

\* C6 as stated: the entry of a file whose _do_process raised has status
\* failed, a non-empty error and process_time 0.
C6_FaultHasDescription ==
    \A i \in 1..Len(file_results) :
        LET f == file_results[i].file_path
        IN f \in Range(PathsOf(CallsOf("_do_process"))) /\ do_process[f].raises =>
              /\ file_results[i].status = "failed"
              /\ file_results[i].process_time = 0
              /\ "error" \in DOMAIN file_results[i]
              /\ file_results[i].error # ""

\* What the code records: status failed, process_time 0 and str(e) as the
\* error, whatever str(e) is; the entries of files that were processed and
\* saved without a fault have status success.
FaultRecordedAsStr ==
    \A i \in 1..Len(file_results) :
        LET f == file_results[i].file_path
            invoked == f \in Range(PathsOf(CallsOf("_do_process")))
            saved == f \in Range(PathsOf(CallsOf("_save_individual_result")))
        IN /\ invoked /\ do_process[f].raises =>
                 /\ file_results[i].status = "failed"
                 /\ file_results[i].process_time = 0
                 /\ file_results[i].error = StrOf(do_process[f])
           /\ invoked /\ ~do_process[f].raises
                 /\ ~(saved /\ save_individual[f].raises) =>
                 file_results[i].status = "success"

\* C7 as stated: when process_directory is over the summary sink has been
\* invoked exactly once if save_summary is set and never if it is not.
C7_SummaryOnceIfSet ==
    pc \in {"returned", "raised"} =>
        Cardinality(At("_save_summary_results"))
            = IF strategy.save_summary THEN 1 ELSE 0

\* C7 amended: when dir_path is a directory the summary sink is invoked
\* exactly once if save_summary is set, after the turn of every kept file and
\* with the dict process_directory returns, and never if it is not set; when
\* dir_path is missing or no directory it is never invoked.
C7_SummaryOnceAfterTraversal ==
    /\ \A k \in At("_save_summary_results") :
          /\ strategy.save_summary
          /\ k = Len(calls)
          /\ pc \in {"returned", "raised"}
          /\ PathsOf(CallsOf("process_file")) = file_paths
          /\ calls[k].results.results = file_results
          /\ pc = "returned" => calls[k].results = ret
    /\ pc \in {"returned", "raised"} =>
          Cardinality(At("_save_summary_results"))
              = IF strategy.save_summary /\ root = "dir" THEN 1 ELSE 0

\* the summary sink got the dict of a traversal of two files
C7_Witness ==
    /\ Traversed
    /\ Len(file_paths) >= 2
    /\ calls[Len(calls)].op = "_save_summary_results"
    /\ calls[Len(calls)].results.file_count = 2

\* C8: a second call over an unchanged tree returns the same file paths and
\* statuses in the same order and the same counts and status as the first.
C8_SecondRunAgrees ==
    pc = "returned" /\ runs >= 2 /\ prev # None /\ ~changed /\ ~prevChanged =>
        Untimed(ret) = prev

\* a second traversal of two files, one of them failing, over an unchanged tree
C8_Witness ==
    /\ Traversed
    /\ runs >= 2
    /\ prev # None
    /\ ~changed /\ ~prevChanged
    /\ ret.file_count = 2
    /\ ret.status = "partial_success"

\* C9: the per-file sink is invoked at most once per file, only with
\* save_individual set and only right after that file's _do_process has
\* returned; when the sink raises, the file's entry is failed with the
\* sink's fault as error, and the traversal goes on.
C9_SinkAfterProcessing ==
    /\ \A k \in At("_save_individual_result") :
          /\ strategy.save_individual
          /\ k > 1
          /\ calls[k - 1].op = "_do_process"
          /\ calls[k - 1].file_path = calls[k].file_path
          /\ ~do_process[calls[k].file_path].raises
          /\ \A j \in At("_save_individual_result") :
                calls[j].file_path = calls[k].file_path => j = k
    /\ \A i \in 1..Len(file_results) :
          LET f == file_results[i].file_path
          IN f \in Range(PathsOf(CallsOf("_save_individual_result")))
                /\ save_individual[f].raises =>
                /\ file_results[i].status = "failed"
                /\ file_results[i].error = StrOf(save_individual[f])
                /\ file_results[i].process_time = 0
    /\ pc \in {"returned", "raised"} /\ root = "dir" =>
          Len(file_results) = Len(file_paths)

\* the sink raised for the first file and the second file was processed and saved
C9_Witness ==
    /\ Traversed
    /\ Len(file_paths) >= 2
    /\ save_individual[file_paths[1]].raises
    /\ ~do_process[file_paths[1]].raises
    /\ ret.results[1].status = "failed"
    /\ ret.results[2].status = "success"
    /\ Len(CallsOf("_save_individual_result")) = 2

\* C10: for a path that no longer exists process_file returns a failed
\* entry with process_time 0 and invokes neither _do_process nor the sink;
\* the entry is in results and counted in file_count and failed_count.
C10_MissingFileRecorded ==
    /\ \A k \in At("process_file") :
          ~calls[k].present =>
              k = Len(calls)
              \/ calls[k + 1].op \in {"process_file", "_save_summary_results"}
    /\ PathsOf(CallsOf("process_file")) = PathsOf(file_results)
    /\ \A i \in 1..Len(file_results) :
          ~CallsOf("process_file")[i].present =>
              /\ file_results[i].status = "failed"
              /\ file_results[i].process_time = 0
    /\ Traversed =>
          LET missing == {i \in 1..Len(file_results) : ~CallsOf("process_file")[i].present}
          IN /\ ret.results = file_results
             /\ ret.file_count = Len(file_paths)
             /\ ret.failed_count >= Cardinality(missing)

\* the first kept file was removed before its turn, the second was processed
C10_Witness ==
    /\ Traversed
    /\ Len(file_paths) >= 2
    /\ ~CallsOf("process_file")[1].present
    /\ ret.results[1].status = "failed"
    /\ ret.results[2].status = "success"
    /\ ret.failed_count = 1
    /\ ret.file_count = 2
====
